---- MODULE Spec2Model ----
(***************************************************************************)
(* Model of run_spotify_to_tidal_gui.py: the Tkinter front-end that        *)
(* validates a form, builds an argument list, writes a temporary           *)
(* config.yml, runs `python -m spotify_to_tidal ...` on a worker thread    *)
(* and streams the child's output to a log console through a queue.        *)
(*                                                                         *)
(* Strings the program splits or trims are sequences of one-character      *)
(* strings; form fields the program only tests for emptiness are booleans. *)
(* The program moves every line of the queue to the console and reads of   *)
(* the queue only whether it is empty, so the queue is whether it holds    *)
(* lines, and what a worker enqueued as its outcome is kept with the       *)
(* worker.  The log console, the status bar and the message boxes only     *)
(* display and are never read: a line is on the console once a sweep of    *)
(* _drain_output_queue has taken it from the queue, and they are not part  *)
(* of the state.                                                           *)
(***************************************************************************)
EXTENDS Integers, Sequences, FiniteSets, TLC

VARIABLES
    proc,               \* self.proc: 0 is None, i > 0 the Popen handle of child i
    stop_requested,     \* self.stop_requested
    output_queue,       \* self.output_queue: TRUE when it holds lines
    KEYRING_AVAILABLE,  \* module flag set by `import keyring`
    keyring_store,      \* the two secrets in the platform store (TRUE: non-empty)
    nRuns,              \* worker threads started so far; invocation i is thread i
    worker,             \* per invocation: the position and locals of _run_worker
    tmpdir,             \* per invocation: the directory made by tempfile.mkdtemp
    child,              \* per invocation: the child process and its stdout pipe
    ui,                 \* the UI thread: idle, or the point a handler has reached
    tested,             \* the value of self.proc the handler in progress last read
    pollPending,        \* after(100, _drain_output_queue) callbacks not yet fired
    ev,                 \* what the last step showed: on_run's refusal, or a function's input and result
    hist                \* per invocation: observations of its run

vars == <<proc, stop_requested, output_queue, KEYRING_AVAILABLE,
          keyring_store, nRuns, worker, tmpdir, child, ui, tested, pollPending, ev,
          hist>>

(***************************************************************************)
(* Bounds of the model.                                                    *)
(***************************************************************************)
MaxRuns == 2        \* run requests accepted in one behaviour
MaxFormRuns == 1    \* run requests accepted in one behaviour of the form specification
MaxLines == 1       \* lines one child writes to its output
MaxFlagLen == 3     \* characters of an enumerated extra-flags string
MaxTokens == 2      \* tokens of an enumerated token list
MaxTokenLen == 2    \* characters of an enumerated token


(***************************************************************************)
(* Text: str.strip, str.split, " ".join and shlex.split.                   *)
(***************************************************************************)
Whitespace == {" ", "\t"}
Quotes == {"'", "\""}
Escape == "\\"

RECURSIVE LStrip(_)
LStrip(s) ==
    IF s # <<>> /\ Head(s) \in Whitespace THEN LStrip(Tail(s)) ELSE s

RECURSIVE RStrip(_)
RStrip(s) ==
    IF s # <<>> /\ s[Len(s)] \in Whitespace
    THEN RStrip(SubSeq(s, 1, Len(s) - 1)) ELSE s

\* str.strip()
Strip(s) == RStrip(LStrip(s))

\* str.split() with no separator: runs of whitespace separate, no empty token
RECURSIVE PySplitFrom(_, _, _)
PySplitFrom(s, tok, out) ==
    IF s = <<>> THEN (IF tok = <<>> THEN out ELSE Append(out, tok))
    ELSE IF Head(s) \in Whitespace
         THEN PySplitFrom(Tail(s), <<>>, IF tok = <<>> THEN out ELSE Append(out, tok))
         ELSE PySplitFrom(Tail(s), Append(tok, Head(s)), out)

PySplit(s) == PySplitFrom(s, <<>>, <<>>)

\* " ".join(tokens)
RECURSIVE JoinBySpace(_)
JoinBySpace(toks) ==
    IF toks = <<>> THEN <<>>
    ELSE IF Len(toks) = 1 THEN toks[1]
    ELSE toks[1] \o <<" ">> \o JoinBySpace(Tail(toks))

\* shlex.split(s): the lexer of shlex in POSIX mode with whitespace_split and
\* no comment characters.  state is " " (between tokens), "a" (in a word), a
\* quote character, or the escape character; esc is the state an escape
\* returns to.  The result is [ok, tokens]; ok is FALSE where shlex raises
\* ValueError (no closing quotation, no escaped character).
RECURSIVE ShlexScan(_, _, _, _, _, _)
ShlexScan(s, state, esc, token, quoted, out) ==
    IF s = <<>> THEN
        IF state \in Quotes \/ state = Escape
        THEN [ok |-> FALSE, tokens |-> <<>>]
        ELSE [ok |-> TRUE,
              tokens |-> IF token # <<>> \/ quoted THEN Append(out, token) ELSE out]
    ELSE
        LET c == Head(s)
            r == Tail(s)
        IN  IF state = " " THEN
                IF c \in Whitespace THEN
                    IF token # <<>> \/ quoted
                    THEN ShlexScan(r, " ", " ", <<>>, FALSE, Append(out, token))
                    ELSE ShlexScan(r, " ", esc, token, quoted, out)
                ELSE IF c = Escape THEN ShlexScan(r, Escape, "a", token, quoted, out)
                ELSE IF c \in Quotes THEN ShlexScan(r, c, esc, token, quoted, out)
                ELSE ShlexScan(r, "a", esc, <<c>>, quoted, out)
            ELSE IF state \in Quotes THEN
                IF c = state THEN ShlexScan(r, "a", esc, token, TRUE, out)
                ELSE IF c = Escape /\ state = "\""
                     THEN ShlexScan(r, Escape, state, token, TRUE, out)
                ELSE ShlexScan(r, state, esc, Append(token, c), TRUE, out)
            ELSE IF state = Escape THEN
                IF esc \in Quotes /\ c # Escape /\ c # esc
                THEN ShlexScan(r, esc, esc, token \o <<Escape, c>>, quoted, out)
                ELSE ShlexScan(r, esc, esc, Append(token, c), quoted, out)
            ELSE \* state = "a"
                IF c \in Whitespace THEN
                    IF token # <<>> \/ quoted
                    THEN ShlexScan(r, " ", " ", <<>>, FALSE, Append(out, token))
                    ELSE ShlexScan(r, " ", esc, token, quoted, out)
                ELSE IF c \in Quotes THEN ShlexScan(r, c, esc, token, quoted, out)
                ELSE IF c = Escape THEN ShlexScan(r, Escape, "a", token, quoted, out)
                ELSE ShlexScan(r, "a", esc, Append(token, c), quoted, out)

ShlexSplit(s) == ShlexScan(s, " ", " ", <<>>, FALSE, <<>>)

\* A tokenizer that gives the tokens in reverse order.
RECURSIVE Reversed(_)
Reversed(q) == IF q = <<>> THEN <<>> ELSE Append(Reversed(Tail(q)), Head(q))

SplitFlagsReversed(s) ==
    IF s = <<>> THEN <<>>
    ELSE IF ShlexSplit(s).ok THEN Reversed(ShlexSplit(s).tokens) ELSE PySplit(s)

\* App._split_flags
SplitFlags(s) ==
    IF s = <<>> THEN <<>>
    ELSE IF ShlexSplit(s).ok THEN ShlexSplit(s).tokens ELSE PySplit(s)

(***************************************************************************)
(* The form and the secret store.                                          *)
(***************************************************************************)
SecretNames == {"spotify_client_secret", "tidal_password"}

Actions == {"sync_playlist_url", "sync_favorites", "sync_all_playlists", "custom"}

TokSync == <<"s", "y", "n", "c">>
TokFavorites == <<"f", "a", "v", "o", "r", "i", "t", "e", "s">>
TokPlaylists == <<"p", "l", "a", "y", "l", "i", "s", "t", "s">>
RefAbc123 == <<"a", "b", "c", "1", "2", "3">>
FlagDryRun == <<"-", "-", "d", "r", "y", "-", "r", "u", "n">>

\* get_secret(name) is non-empty
get_secret(name) == KEYRING_AVAILABLE /\ keyring_store[name]

\* The checks of on_run before on_save_settings, with the check of the
\* client secret left out.
CredentialsOkNoSecret(f) ==
    /\ f.cid
    /\ f.suser
    /\ f.tuser
    /\ (f.tpw \/ get_secret("tidal_password"))

\* The five checks of on_run before on_save_settings.  A field of f is TRUE
\* when its text is non-empty after strip().
CredentialsOk(f) ==
    /\ f.cid
    /\ (f.csec \/ get_secret("spotify_client_secret"))
    /\ f.suser
    /\ f.tuser
    /\ (f.tpw \/ get_secret("tidal_password"))

\* The argument list with the extra flags put before the playlist reference.
CmdArgsFlagsFirst(f) ==
    LET playlist_url == Strip(f.playlist)
        extra_flags == SplitFlags(Strip(f.flags))
    IN  IF f.action = "sync_playlist_url" THEN
            IF playlist_url = <<>> THEN [ok |-> FALSE, args |-> <<>>]
            ELSE [ok |-> TRUE, args |-> <<TokSync>> \o extra_flags \o <<playlist_url>>]
        ELSE IF f.action = "sync_favorites" THEN
            [ok |-> TRUE, args |-> <<TokFavorites>> \o extra_flags]
        ELSE IF f.action = "sync_all_playlists" THEN
            [ok |-> TRUE, args |-> <<TokPlaylists>> \o extra_flags]
        ELSE
            [ok |-> TRUE,
             args |-> <<IF Strip(f.custom) # <<>> THEN Strip(f.custom) ELSE TokSync>>
                      \o extra_flags
                      \o (IF playlist_url # <<>> THEN <<playlist_url>> ELSE <<>>)]

\* on_run, "Prepare command from selections": ok is FALSE where on_run shows
\* "Please paste a Spotify playlist URL." and returns.
CmdArgs(f) ==
    LET playlist_url == Strip(f.playlist)
        extra_flags == SplitFlags(Strip(f.flags))
    IN  IF f.action = "sync_playlist_url" THEN
            IF playlist_url = <<>> THEN [ok |-> FALSE, args |-> <<>>]
            ELSE [ok |-> TRUE, args |-> <<TokSync, playlist_url>> \o extra_flags]
        ELSE IF f.action = "sync_favorites" THEN
            [ok |-> TRUE, args |-> <<TokFavorites>> \o extra_flags]
        ELSE IF f.action = "sync_all_playlists" THEN
            [ok |-> TRUE, args |-> <<TokPlaylists>> \o extra_flags]
        ELSE
            [ok |-> TRUE,
             args |-> <<IF Strip(f.custom) # <<>> THEN Strip(f.custom) ELSE TokSync>>
                      \o (IF playlist_url # <<>> THEN <<playlist_url>> ELSE <<>>)
                      \o extra_flags]

(***************************************************************************)
(* Inputs.                                                                 *)
(***************************************************************************)
\* All sequences over S of length at most n
RECURSIVE SeqsUpTo(_, _)
SeqsUpTo(S, n) ==
    IF n = 0 THEN {<<>>}
    ELSE LET shorter == SeqsUpTo(S, n - 1)
         IN  shorter \cup {Append(q, c) : q \in shorter, c \in S}

FlagChars == {"-", "a", " ", "'", "\"", "\\"}
FlagStrings == SeqsUpTo(FlagChars, MaxFlagLen) \cup {FlagDryRun}

TokenChars == {"a", "-", " "}
PlainChars == {"a", "-"}
TokenLists == SeqsUpTo(SeqsUpTo(TokenChars, MaxTokenLen), MaxTokens)

Playlists == {<<>>, <<" ">>, RefAbc123}
Customs == {<<>>, <<" ", "x", " ">>}

AllFilled == [cid |-> TRUE, csec |-> TRUE, suser |-> TRUE, tuser |-> TRUE, tpw |-> TRUE]

FormOf(c, action, playlist, custom, flags) ==
    [cid |-> c.cid, csec |-> c.csec, suser |-> c.suser, tuser |-> c.tuser,
     tpw |-> c.tpw, action |-> action, playlist |-> playlist, custom |-> custom,
     flags |-> flags]

\* The form submitted to on_run in the lifecycle specification: all
\* credentials, the playlist action and a reference
RunForms == {FormOf(AllFilled, "sync_playlist_url", RefAbc123, <<>>, <<>>)}

\* Forms submitted to on_run in the form specification: all credentials, one
\* of them left blank, or both secrets left blank; the playlist action with
\* the reference blank, of spaces or given, or the favorites action
Credentials ==
    {AllFilled, [AllFilled EXCEPT !.cid = FALSE], [AllFilled EXCEPT !.csec = FALSE],
     [AllFilled EXCEPT !.suser = FALSE], [AllFilled EXCEPT !.tuser = FALSE],
     [AllFilled EXCEPT !.tpw = FALSE],
     [AllFilled EXCEPT !.csec = FALSE, !.tpw = FALSE]}
ValidationForms ==
    {FormOf(c, "sync_playlist_url", p, <<>>, <<>>) :
        c \in Credentials, p \in {<<>>, <<" ">>, RefAbc123}}
    \cup {FormOf(c, "sync_favorites", <<>>, <<>>, <<>>) : c \in Credentials}

\* Forms given to the command builder on its own
BuildForms ==
    {FormOf(AllFilled, a, p, cu, fl) : a \in Actions, p \in Playlists,
                                       cu \in Customs, fl \in FlagStrings}

(***************************************************************************)
(* State after App.__init__.                                               *)
(***************************************************************************)
Invocations == 1 .. MaxRuns

\* Exit codes a child ends with by itself, and the one of a child ended by
\* terminate()
ExitCodes == {0, 2}
SigTermCode == -15

NoEvent == [op |-> "none"]

Msg(kind, val) == [kind |-> kind, val |-> val]
NoMsg == Msg("none", 0)

\* The messages _run_worker enqueues when the run has reached its outcome
TerminalKinds == {"cancelled", "done", "failed", "spawn_error", "unexpected"}

WorkerInit == [pc |-> "unstarted", temp_root |-> FALSE, stream |-> 0, line |-> 0, rc |-> 0,
               outcome |-> NoMsg, cleanup |-> "none"]
ChildInit == [st |-> "none", code |-> 0, written |-> 0, pipe |-> 0, term |-> FALSE]
HistInit == [terminals |-> 0, popens |-> 0, stopSet |-> FALSE]

InitBase ==
    /\ proc = 0
    /\ stop_requested = FALSE
    /\ output_queue = FALSE
    /\ nRuns = 0
    /\ worker = [i \in Invocations |-> WorkerInit]
    /\ tmpdir = [i \in Invocations |-> "none"]
    /\ child = [i \in Invocations |-> ChildInit]
    /\ ui = "idle"
    /\ tested = 0
    /\ pollPending = 0
    /\ hist = [i \in Invocations |-> HistInit]

\* keyring is installed and the store holds no secret yet
Init ==
    /\ InitBase
    /\ KEYRING_AVAILABLE = TRUE
    /\ keyring_store = [n \in SecretNames |-> FALSE]
    /\ ev = NoEvent

\* keyring is installed or not, and an installed store holds any of the secrets
InitForm ==
    /\ InitBase
    /\ KEYRING_AVAILABLE \in BOOLEAN
    /\ keyring_store \in [SecretNames -> BOOLEAN]
    /\ ~KEYRING_AVAILABLE => keyring_store = [n \in SecretNames |-> FALSE]
    /\ ev = NoEvent

Active(i) == worker[i].pc \notin {"unstarted", "done"}

(***************************************************************************)
(* UI thread: on_run.                                                      *)
(***************************************************************************)
uiVars == <<ui, tested, pollPending>>
storeVars == <<KEYRING_AVAILABLE, keyring_store>>
workerVars == <<nRuns, worker, tmpdir, child, hist>>

\* on_save_settings as called from on_run: set_secret stores each secret
\* typed in the form when the keyring is there.
SavedSecrets(f) ==
    [n \in SecretNames |->
        IF n = "spotify_client_secret"
        THEN (IF f.csec /\ KEYRING_AVAILABLE THEN TRUE ELSE keyring_store[n])
        ELSE (IF f.tpw /\ KEYRING_AVAILABLE THEN TRUE ELSE keyring_store[n])]

\* on_run
OnRun(f) ==
    /\ ui = "idle"
    /\ IF ~CredentialsOk(f) THEN
           \* messagebox.showerror("Missing", "... is required."); return
           /\ ev' = [op |-> "on_run", form |-> f, result |-> "credential required"]
           /\ UNCHANGED <<proc, stop_requested, output_queue, uiVars, storeVars,
                          workerVars>>
       ELSE
           /\ keyring_store' = SavedSecrets(f)
           /\ UNCHANGED KEYRING_AVAILABLE
           /\ IF ~CmdArgs(f).ok THEN
                     \* "Please paste a Spotify playlist URL."; return
                     /\ ev' = [op |-> "on_run", form |-> f, result |-> "playlist required"]
                     /\ UNCHANGED <<proc, stop_requested, output_queue, uiVars,
                                    workerVars>>
                 ELSE
                     /\ nRuns < MaxRuns
                     /\ stop_requested' = FALSE
                     /\ nRuns' = nRuns + 1
                     /\ worker' = [worker EXCEPT ![nRuns + 1].pc = "build"]
                     /\ pollPending' = pollPending + 1
                     /\ ev' = NoEvent
                     /\ UNCHANGED <<proc, output_queue, tmpdir, child, ui, tested, hist>>

(***************************************************************************)
(* UI thread: on_cancel and _drain_output_queue, one step per read of      *)
(* self.proc.  A handler runs to its end before the next one starts; the   *)
(* worker threads run meanwhile.                                           *)
(***************************************************************************)
\* on_cancel, `if self.proc`: None goes to the else branch ("No running
\* process.")
OnCancel ==
    /\ ui = "idle"
    /\ IF proc # 0
       THEN ui' = "cancel_poll" /\ tested' = proc
       ELSE UNCHANGED <<ui, tested>>
    /\ ev' = NoEvent
    /\ UNCHANGED <<proc, stop_requested, output_queue, pollPending, storeVars,
                   workerVars>>

\* on_cancel, `and self.proc.poll() is None`: the handle is read again; None
\* raises AttributeError, which ends the handler.  When the child of the
\* handle runs, `self.stop_requested = True`.  hist notes the invocations
\* whose child had not exited when the flag was set.
OnCancelPoll ==
    /\ ui = "cancel_poll"
    /\ IF proc # 0 /\ child[proc].st = "running"
       THEN /\ stop_requested' = TRUE
            /\ hist' = [i \in Invocations |->
                          IF Active(i) /\ child[i].st = "running"
                          THEN [hist[i] EXCEPT !.stopSet = TRUE] ELSE hist[i]]
            /\ ui' = "cancel_term"
            /\ tested' = proc
       ELSE /\ ui' = "idle"
            /\ tested' = 0
            /\ UNCHANGED <<stop_requested, hist>>
    /\ ev' = NoEvent
    /\ UNCHANGED <<proc, output_queue, pollPending, storeVars, nRuns, worker, tmpdir,
                   child>>

\* on_cancel, `try: self.proc.terminate() except Exception: pass`: the handle
\* is read once more; the signal goes to the child it refers to now, and the
\* AttributeError of a None handle is swallowed
OnCancelTerminate ==
    /\ ui = "cancel_term"
    /\ child' = IF proc # 0 /\ child[proc].st = "running"
                THEN [child EXCEPT ![proc].term = TRUE] ELSE child
    /\ ui' = "idle"
    /\ tested' = 0
    /\ ev' = NoEvent
    /\ UNCHANGED <<proc, stop_requested, output_queue, pollPending, storeVars, nRuns,
                   worker, tmpdir, hist>>

\* the timer fires: get_nowait() until queue.Empty, each line written to
\* the console; then `self.proc is not None`
DrainSweep ==
    /\ ui = "idle"
    /\ pollPending > 0
    /\ pollPending' = pollPending - 1
    /\ output_queue' = FALSE
    /\ IF proc # 0
       THEN ui' = "drain_poll" /\ tested' = proc
       ELSE ui' = "drain_empty" /\ tested' = 0
    /\ ev' = NoEvent
    /\ UNCHANGED <<proc, stop_requested, storeVars, workerVars>>

\* `and self.proc.poll() is None`: the handle is read again; None raises
\* AttributeError, which ends the callback with no poll rescheduled; a
\* running child reschedules the poll
DrainPoll ==
    /\ ui = "drain_poll"
    /\ IF proc = 0 THEN ui' = "idle" /\ UNCHANGED pollPending
       ELSE IF child[proc].st = "running"
            THEN ui' = "idle" /\ pollPending' = pollPending + 1
            ELSE ui' = "drain_empty" /\ UNCHANGED pollPending
    /\ tested' = 0
    /\ ev' = NoEvent
    /\ UNCHANGED <<proc, stop_requested, output_queue, storeVars, workerVars>>

\* else: `if not self.output_queue.empty()`: one last sweep
DrainEmpty ==
    /\ ui = "drain_empty"
    /\ pollPending' = IF output_queue THEN pollPending + 1 ELSE pollPending
    /\ ui' = "idle"
    /\ ev' = NoEvent
    /\ UNCHANGED <<proc, stop_requested, output_queue, tested, storeVars, workerVars>>

(***************************************************************************)
(* Worker thread: _run_worker, one step per blocking call or access to a   *)
(* shared field.  A step that raises enqueues the message of its except    *)
(* clause and goes to the finally block.                                   *)
(***************************************************************************)
\* self.output_queue.put(...): the queue holds a line
Put == TRUE

\* one more outcome message of invocation i
Terminal(i) == [hist EXCEPT ![i].terminals = @ + 1]

\* invocation i has enqueued the outcome message m and goes to the finally block
Finish(i, m) == [worker EXCEPT ![i].pc = "finally", ![i].outcome = m]

\* _build_temp_config (mkdtemp, then write_text of config.yml) and the two
\* puts "> Running: ..." and "> Using config: ...".  mkdtemp or write_text
\* may raise (mkdtemp also FileNotFoundError, when there is no usable
\* temporary directory); after a failed write_text the directory stays and
\* temp_root was never assigned.
BuildTempConfig(i) ==
    /\ worker[i].pc = "build"
    /\ \/ /\ tmpdir' = [tmpdir EXCEPT ![i] = "exists"]
          /\ worker' = [worker EXCEPT ![i].pc = "spawn", ![i].temp_root = TRUE]
          /\ output_queue' = Put
          /\ UNCHANGED hist
       \/ /\ tmpdir' = [tmpdir EXCEPT ![i] = "exists"]
          /\ worker' = Finish(i, Msg("unexpected", 0))
          /\ output_queue' = Put
          /\ hist' = Terminal(i)
       \/ /\ \E kind \in {"spawn_error", "unexpected"} : worker' = Finish(i, Msg(kind, 0))
          /\ output_queue' = Put
          /\ hist' = Terminal(i)
          /\ UNCHANGED tmpdir
    /\ ev' = NoEvent
    /\ UNCHANGED <<proc, stop_requested, uiVars, storeVars, nRuns, child>>

\* Popen that publishes a handle also when the spawn raised
PopenKeepsHandle(i) ==
    /\ worker[i].pc = "spawn"
    /\ \/ /\ proc' = i
          /\ child' = [child EXCEPT ![i].st = "running"]
          /\ worker' = [worker EXCEPT ![i].pc = "iter"]
          /\ hist' = [hist EXCEPT ![i].popens = @ + 1]
          /\ UNCHANGED output_queue
       \/ /\ \E kind \in {"spawn_error", "unexpected"} : worker' = Finish(i, Msg(kind, 0))
          /\ output_queue' = Put
          /\ hist' = [Terminal(i) EXCEPT ![i].popens = @ + 1]
          /\ proc' = i
          /\ UNCHANGED child
    /\ ev' = NoEvent
    /\ UNCHANGED <<stop_requested, uiVars, storeVars, nRuns, tmpdir>>

\* self.proc = subprocess.Popen(...): the child runs and the handle is
\* published, or Popen raises FileNotFoundError ("spawn_error") or another
\* exception ("unexpected") and self.proc is not assigned
Popen(i) ==
    /\ worker[i].pc = "spawn"
    /\ \/ /\ proc' = i
          /\ child' = [child EXCEPT ![i].st = "running"]
          /\ worker' = [worker EXCEPT ![i].pc = "iter"]
          /\ hist' = [hist EXCEPT ![i].popens = @ + 1]
          /\ UNCHANGED output_queue
       \/ /\ \E kind \in {"spawn_error", "unexpected"} : worker' = Finish(i, Msg(kind, 0))
          /\ output_queue' = Put
          /\ hist' = [Terminal(i) EXCEPT ![i].popens = @ + 1]
          /\ UNCHANGED <<proc, child>>
    /\ ev' = NoEvent
    /\ UNCHANGED <<stop_requested, uiVars, storeVars, nRuns, tmpdir>>

\* `for line in self.proc.stdout`: the handle is read once, when the loop
\* starts; None there raises AttributeError
IterStdout(i) ==
    /\ worker[i].pc = "iter"
    /\ IF proc = 0
       THEN /\ output_queue' = Put
            /\ worker' = Finish(i, Msg("unexpected", 0))
            /\ hist' = Terminal(i)
       ELSE /\ worker' = [worker EXCEPT ![i].pc = "read", ![i].stream = proc]
            /\ UNCHANGED <<output_queue, hist>>
    /\ ev' = NoEvent
    /\ UNCHANGED <<proc, stop_requested, uiVars, storeVars, nRuns, tmpdir, child>>

\* the next line of the stream and `if self.stop_requested: break`: a line
\* (kept for the put, or dropped when the flag is set), a decoding error on a
\* line, or the end of the stream once the child has exited and the pipe is
\* empty
ReadLine(i) ==
    /\ worker[i].pc = "read"
    /\ LET c == worker[i].stream IN
       IF child[c].pipe > 0 THEN
           /\ child' = [child EXCEPT ![c].pipe = @ - 1]
           /\ \/ /\ worker' = IF stop_requested
                              THEN [worker EXCEPT ![i].pc = "wait"]
                              ELSE [worker EXCEPT ![i].pc = "put",
                                      ![i].line = child[c].written - child[c].pipe + 1]
                 /\ UNCHANGED <<output_queue, hist>>
              \/ /\ output_queue' = Put
                 /\ worker' = Finish(i, Msg("unexpected", 0))
                 /\ hist' = Terminal(i)
       ELSE
           /\ child[c].st = "exited"
           /\ worker' = [worker EXCEPT ![i].pc = "wait"]
           /\ UNCHANGED <<child, output_queue, hist>>
    /\ ev' = NoEvent
    /\ UNCHANGED <<proc, stop_requested, uiVars, storeVars, nRuns, tmpdir>>

\* `self.output_queue.put(line)`
PutLine(i) ==
    /\ worker[i].pc = "put"
    /\ output_queue' = Put
    /\ worker' = [worker EXCEPT ![i].pc = "read", ![i].line = 0]
    /\ ev' = NoEvent
    /\ UNCHANGED <<proc, stop_requested, uiVars, storeVars, nRuns, tmpdir, child, hist>>

\* `rc = self.proc.wait()`: the handle is read again; None raises
\* AttributeError, otherwise the call returns when that child has exited
Wait(i) ==
    /\ worker[i].pc = "wait"
    /\ IF proc = 0
       THEN /\ output_queue' = Put
            /\ worker' = Finish(i, Msg("unexpected", 0))
            /\ hist' = Terminal(i)
       ELSE /\ child[proc].st = "exited"
            /\ worker' = [worker EXCEPT ![i].pc = "report", ![i].rc = child[proc].code]
            /\ UNCHANGED <<output_queue, hist>>
    /\ ev' = NoEvent
    /\ UNCHANGED <<proc, stop_requested, uiVars, storeVars, nRuns, tmpdir, child>>

\* The outcome with the exit code not looked at
OutcomeIgnoresCode(flag, rc) ==
    IF flag THEN "cancelled" ELSE "done"

\* `if self.stop_requested: ... elif rc == 0: ... else: ...`
Outcome(flag, rc) ==
    IF flag THEN "cancelled" ELSE IF rc = 0 THEN "done" ELSE "failed"

\* the put of the outcome message; "failed" carries the exit code
Report(i) ==
    /\ worker[i].pc = "report"
    /\ LET kind == Outcome(stop_requested, worker[i].rc)
       IN  worker' = Finish(i, Msg(kind, IF kind = "failed" THEN worker[i].rc ELSE 0))
    /\ output_queue' = Put
    /\ hist' = Terminal(i)
    /\ ev' = NoEvent
    /\ UNCHANGED <<proc, stop_requested, uiVars, storeVars, nRuns, tmpdir, child>>

\* finally: `if temp_root and temp_root.exists()`: rmtree with
\* ignore_errors=True, which removes the directory or leaves it without
\* raising, then the put of "Temporary config removed."; the except clause
\* with the put of "Warning: could not remove temporary config." is not
\* reached.  cleanup is the message enqueued here.
Cleanup(i) ==
    /\ worker[i].pc = "finally"
    /\ IF worker[i].temp_root /\ tmpdir[i] = "exists"
       THEN /\ \E after \in {"removed", "exists"} : tmpdir' = [tmpdir EXCEPT ![i] = after]
            /\ output_queue' = Put
            /\ worker' = [worker EXCEPT ![i].pc = "clear", ![i].cleanup = "removed"]
       ELSE /\ UNCHANGED <<tmpdir, output_queue>>
            /\ worker' = [worker EXCEPT ![i].pc = "clear"]
    /\ ev' = NoEvent
    /\ UNCHANGED <<proc, stop_requested, uiVars, storeVars, nRuns, child, hist>>

\* `self.proc = None`, and the thread returns
ClearHandle(i) ==
    /\ worker[i].pc = "clear"
    /\ proc' = 0
    /\ worker' = [worker EXCEPT ![i] = [WorkerInit EXCEPT !.pc = "done"]]
    /\ hist' = [hist EXCEPT ![i].stopSet = FALSE]
    /\ ev' = NoEvent
    /\ UNCHANGED <<stop_requested, output_queue, uiVars, storeVars, nRuns, tmpdir, child>>

(***************************************************************************)
(* The child process `python -m spotify_to_tidal ...`.                     *)
(***************************************************************************)
\* the child writes a line to its stdout/stderr pipe
ChildWrite(c) ==
    /\ child[c].st = "running"
    /\ child[c].written < MaxLines
    /\ child' = [child EXCEPT ![c].written = @ + 1, ![c].pipe = @ + 1]
    /\ ev' = NoEvent
    /\ UNCHANGED <<proc, stop_requested, output_queue, uiVars, storeVars, nRuns,
                   worker, tmpdir, hist>>

\* the child exits, by itself or on the signal of terminate()
ChildExit(c) ==
    /\ child[c].st = "running"
    /\ \E code \in ExitCodes \cup (IF child[c].term THEN {SigTermCode} ELSE {}) :
           child' = [child EXCEPT ![c].st = "exited", ![c].code = code, ![c].term = FALSE]
    /\ ev' = NoEvent
    /\ UNCHANGED <<proc, stop_requested, output_queue, uiVars, storeVars, nRuns,
                   worker, tmpdir, hist>>

(***************************************************************************)
(* The program.                                                            *)
(***************************************************************************)
WorkerStep(i) ==
    \/ BuildTempConfig(i)
    \/ Popen(i)
    \/ IterStdout(i)
    \/ ReadLine(i)
    \/ PutLine(i)
    \/ Wait(i)
    \/ Report(i)
    \/ Cleanup(i)
    \/ ClearHandle(i)

UiStep ==
    \/ \E f \in RunForms : OnRun(f)
    \/ OnCancel
    \/ OnCancelPoll
    \/ OnCancelTerminate
    \/ DrainSweep
    \/ DrainPoll
    \/ DrainEmpty

Next ==
    \/ UiStep
    \/ \E i \in Invocations : WorkerStep(i)
    \/ \E c \in Invocations : ChildWrite(c)
    \/ \E c \in Invocations : ChildExit(c)

Spec == Init /\ [][Next]_vars

(***************************************************************************)
(* The form: every way of filling it in, submitted before and during one   *)
(* invocation.                                                             *)
(***************************************************************************)
FormStep == \E f \in ValidationForms : OnRun(f) /\ nRuns' <= MaxFormRuns

NextForm ==
    \/ FormStep
    \/ OnCancel
    \/ OnCancelPoll
    \/ OnCancelTerminate
    \/ DrainSweep
    \/ DrainPoll
    \/ DrainEmpty
    \/ \E i \in Invocations : WorkerStep(i)
    \/ \E c \in Invocations : ChildWrite(c)
    \/ \E c \in Invocations : ChildExit(c)

SpecForm == InitForm /\ [][NextForm]_vars

(***************************************************************************)
(* Properties of the lifecycle.                                            *)
(***************************************************************************)
Running(c) == child[c].st = "running"

\* C1: a run request made while an earlier invocation is active starts
\* nothing, so at most one worker thread and at most one child process are
\* active at any time.
C1_AtMostOneInvocation ==
    /\ Cardinality({i \in Invocations : Active(i)}) <= 1
    /\ Cardinality({c \in Invocations : Running(c)}) <= 1

\* C2: an invocation whose child had not exited when on_cancel set the stop
\* flag ends as Cancelled and never as Succeeded or Failed: it enqueues
\* neither "Done" nor "Finished with exit code", whatever the exit code and
\* whatever the UI does before the worker reads the flag.
C2_StopNeverDoneOrFailed ==
    \A i \in Invocations :
        hist[i].stopSet => worker[i].outcome.kind \notin {"done", "failed"}

\* C3: once the worker of an invocation has returned, the temporary
\* directory made for that invocation is no longer on disk.
C3_TempDirGone ==
    \A i \in Invocations : worker[i].pc = "done" => tmpdir[i] # "exists"

\* A required credential of form f is in neither the form nor the secret
\* store, or f asks for the playlist action without a reference
C4_Invalid(f) ==
    \/ ~f.cid \/ ~f.suser \/ ~f.tuser
    \/ ~f.csec /\ ~(KEYRING_AVAILABLE /\ keyring_store["spotify_client_secret"])
    \/ ~f.tpw /\ ~(KEYRING_AVAILABLE /\ keyring_store["tidal_password"])
    \/ f.action = "sync_playlist_url" /\ Strip(f.playlist) = <<>>

\* C4: an on_run that fails validation starts no worker thread, makes no
\* temporary directory, spawns no child, and leaves the process handle, the
\* stop flag and the output queue as they were.
C4_InvalidRunStartsNothing ==
    [][\A f \in ValidationForms :
          (C4_Invalid(f) /\ OnRun(f))
              => UNCHANGED <<proc, stop_requested, output_queue, nRuns, worker,
                             tmpdir, child, pollPending>>]_vars

\* on_run has just refused a form for a secret that the form leaves blank and
\* the unavailable store cannot supply, while an earlier invocation runs
C4_Witness ==
    /\ ev.op = "on_run"
    /\ ev.result = "credential required"
    /\ ev.form = FormOf([AllFilled EXCEPT !.tpw = FALSE], "sync_playlist_url",
                        RefAbc123, <<>>, <<>>)
    /\ ~KEYRING_AVAILABLE
    /\ nRuns = 1
    /\ Running(1)
    /\ proc = 1

SpawnFailed(i) == hist[i].popens = 1 /\ child[i].st = "none"

C9_ClearedWhenNoChildRuns ==
    [][\A i \in Invocations :
          (worker[i].pc = "clear" /\ worker'[i].pc = "done")
              => \A c \in Invocations : ~Running(c)]_vars

\* C10: the poll is scheduled or in progress as long as a worker has not
\* finished or the queue holds lines.
C10_PollUntilDrained ==
    (ui = "idle" /\ pollPending = 0)
        => /\ \A i \in Invocations : ~Active(i)
           /\ ~output_queue

\* C11: once on_cancel has set the stop flag while the child of an invocation
\* runs, the reader loop of that invocation puts no further line of child
\* output on the queue.
C11_NoLineAfterStop ==
    [][\A i \in Invocations :
          (worker[i].pc = "put" /\ worker'[i].pc = "read") => ~hist[i].stopSet]_vars

\* C12: when the removal of the temporary directory fails, the worker
\* enqueues "Warning: could not remove temporary config." and not "Temporary
\* config removed."; "Temporary config removed." is enqueued only when the
\* directory is no longer on disk.
C12_CleanupReported ==
    \A i \in Invocations :
        worker[i].pc = "clear"
            => /\ worker[i].cleanup = "removed" => tmpdir[i] = "removed"
               /\ (worker[i].temp_root /\ tmpdir[i] = "exists")
                      => worker[i].cleanup = "warning"

\* C13: between the test of the process handle by on_cancel or
\* _drain_output_queue and the handler's later calls of poll() and
\* terminate() the handle stays the one that was tested, so no call is made
\* on None and terminate() reaches no other child than the one polled.
C13_HandleStable ==
    ui \in {"cancel_poll", "cancel_term", "drain_poll"} => (proc # 0 /\ proc = tested)

(***************************************************************************)
(* The command builder and the tokenizer on their own inputs.              *)
(***************************************************************************)
lifecycleVars == <<proc, stop_requested, output_queue, KEYRING_AVAILABLE,
                   keyring_store, nRuns, worker, tmpdir, child, ui, tested, pollPending,
                   hist>>

\* on_run's "Prepare command from selections" applied to a form
BuildStep ==
    /\ ev = NoEvent
    /\ \E f \in BuildForms :
           ev' = [op |-> "cmd_args", form |-> f, result |-> CmdArgs(f)]
    /\ UNCHANGED lifecycleVars

\* _split_flags applied to a token list joined by single spaces
SplitStep ==
    /\ ev = NoEvent
    /\ \E toks \in TokenLists :
           ev' = [op |-> "split_flags", tokens |-> toks,
                  result |-> SplitFlags(JoinBySpace(toks))]
    /\ UNCHANGED lifecycleVars

NextPure == BuildStep \/ SplitStep

SpecPure == Init /\ [][NextPure]_vars

(***************************************************************************)
(* Properties of the command builder and the tokenizer.                    *)
(***************************************************************************)
\* The subcommand token fixed for the action of form f
SubcommandOf(f) ==
    CASE f.action = "sync_playlist_url" -> TokSync
      [] f.action = "sync_favorites" -> TokFavorites
      [] f.action = "sync_all_playlists" -> TokPlaylists
      [] OTHER -> IF Strip(f.custom) = <<>> THEN TokSync ELSE Strip(f.custom)

\* C7: the argument list built from a form that passes validation starts
\* with the subcommand token of the action, continues with the playlist
\* reference or with nothing, and ends with the tokens of the extra flags in
\* order; the playlist action with reference abc123 and flags --dry-run
\* gives sync, abc123, --dry-run.
C7_ArgsShape ==
    (ev.op = "cmd_args" /\ ev.result.ok)
        => LET f == ev.form
               args == ev.result.args
               flags == SplitFlags(Strip(f.flags))
               n == Len(args) - Len(flags)
           IN  /\ n \in {1, 2}
               /\ args[1] = SubcommandOf(f)
               /\ n = 2 => /\ args[2] = Strip(f.playlist)
                           /\ args[2] # <<>>
                           /\ f.action \in {"sync_playlist_url", "custom"}
               /\ f.action = "sync_playlist_url" => n = 2
               /\ SubSeq(args, n + 1, Len(args)) = flags
               /\ (f.action = "sync_playlist_url" /\ f.playlist = RefAbc123
                     /\ f.flags = FlagDryRun)
                      => args = <<TokSync, RefAbc123, FlagDryRun>>

\* the scenario of the playlist action with abc123 and --dry-run was built
C7_Witness ==
    /\ ev.op = "cmd_args"
    /\ ev.form.action = "sync_playlist_url"
    /\ ev.form.playlist = RefAbc123
    /\ ev.form.flags = FlagDryRun
    /\ ev.result = [ok |-> TRUE, args |-> <<TokSync, RefAbc123, FlagDryRun>>]

\* Tokens that are not empty and hold no whitespace, quote or backslash
PlainTokens(toks) ==
    \A k \in 1 .. Len(toks) :
        /\ toks[k] # <<>>
        /\ \A j \in 1 .. Len(toks[k]) : toks[k][j] \in PlainChars

\* C8: _split_flags of plain tokens joined by single spaces gives the tokens
\* back, and _split_flags of the empty string gives the empty list.
C8_SplitJoinRoundTrip ==
    (ev.op = "split_flags" /\ PlainTokens(ev.tokens)) => ev.result = ev.tokens

\* two different plain tokens were joined and split
C8_Witness ==
    /\ ev.op = "split_flags"
    /\ ev.tokens = << <<"-", "a">>, <<"a">> >>
    /\ ev.result = ev.tokens

====
